---- MODULE Spec2Model ----
(***************************************************************************)
(* A model of the AI news bot: the feed reader with its per-feed           *)
(* last-check times (rss_reader.py), the two summarizers                   *)
(* (ai_summarizer.py), the Slack notifier (slack_notifier.py) and the      *)
(* orchestrating loop (main.py).                                           *)
(*                                                                         *)
(* Time is an integer clock; datetime.now() reads it.  A Python dictionary *)
(* or attribute bag is a TLA+ function whose DOMAIN holds the keys or      *)
(* attributes that are present, so hasattr(x, 'k') is "k" \in DOMAIN x.    *)
(* A Python string is the sequence of its pieces: a piece is one character *)
(* of a text, or a fixed message taken whole; '' is the empty sequence.    *)
(***************************************************************************)
EXTENDS Integers, Sequences, FiniteSets, TLC

VARIABLES
    feed_urls,          \* RSSReader.feed_urls: the registered urls, in order
    last_check,         \* RSSReader.last_check: url -> time of the last check
    now,                \* the wall clock
    pc,                 \* where the reader's caller is: idle, polling, returned
    idx,                \* get_new_articles: position of the for loop in feed_urls
    all_new_articles,   \* get_new_articles: the list being built and returned
    cycle,              \* history: what happened to each url in this poll
    last_call,          \* history: the method called last, with its argument
    watch,              \* history: one item processed by a poll, with its time
    article,            \* the article dictionary handed to a summarizer
    api_key,            \* AISummarizer.api_key
    summarized,         \* the summarizer called last, and what its call did
    batch_articles,     \* the list of articles handed to batch_summarize
    batch_summarized,   \* the summarizer whose batch_summarize ran, and its list
    bot_pc,             \* AINewsBot: where run_continuously and run_once are
    summarizer,         \* AINewsBot.summarizer: which of the two it holds
    slack,              \* SlackNotifier: whether it has a client and a channel
    summarized_articles,\* run_once: the batch the summarizer returned
    post_i,             \* send_batch_notifications: position of its for loop
    success_count,      \* send_batch_notifications: success_count
    run_once_result,    \* the value the last run_once returned, if any
    posted,             \* history: messages posted in this cycle
    attempted,          \* history: articles whose notification was tried
    interrupted_at      \* history: where the KeyboardInterrupt found the loop

readerVars == <<feed_urls, last_check, now, pc, idx, all_new_articles, cycle,
                last_call, watch>>

summarizerVars == <<article, api_key, summarized, batch_articles,
                    batch_summarized>>

botVars == <<bot_pc, summarizer, slack, summarized_articles, post_i,
             success_count, run_once_result, posted, attempted, interrupted_at>>

vars == <<readerVars, summarizerVars, botVars>>

----------------------------------------------------------------------------
(* Bounds and universe *)

\* The clock stops advancing at MaxTime.
MaxTime == 3

\* A feed returns at most MaxEntries entries.
MaxEntries == 2

\* timedelta(days=1), in clock units.
Day == 1

URLs == {"a", "b"}

\* The entries a feed can hold, in feed order.  An entry has a title unless
\* noted; its dates are the attributes feedparser gives it.
EntryList ==
    << [title |-> <<"P">>, published_parsed |-> 1],
       [title |-> <<"U">>, updated_parsed |-> 2, summary |-> <<"A", " ", "b", ".">>],
       [published_parsed |-> 2],
       [title |-> <<"B">>, published_parsed |-> 0, updated_parsed |-> 3,
        content |-> <<[value |-> <<"A", " ", "b", ".">>]>>],
       [title |-> <<"N">>] >>

Entries == {EntryList[i] : i \in 1..Len(EntryList)}

Range(s) == {s[i] : i \in 1..Len(s)}

\* The strictly increasing index sequences of length n over 1..m.
RECURSIVE Picks(_, _)
Picks(m, n) ==
    IF n = 0 THEN {<<>>}
    ELSE IF m < n THEN {}
    ELSE Picks(m - 1, n) \cup {Append(p, m) : p \in Picks(m - 1, n - 1)}

\* feed.entries: up to MaxEntries entries, each at most once, in feed order.
EntrySeqs ==
    UNION {{[i \in 1..n |-> EntryList[p[i]]] : p \in Picks(Len(EntryList), n)} :
             n \in 0..MaxEntries}

\* What feedparser.parse(url) hands back: a parsed feed, with or without a
\* title of its own, or a feed that carries a bozo_exception.
Feeds ==
    {[feed |-> [title |-> <<"F">>], entries |-> es] : es \in EntrySeqs}
    \cup {[feed |-> [link |-> <<"l">>], entries |-> <<EntryList[5]>>]}
    \cup {[feed |-> [link |-> <<"l">>], entries |-> <<EntryList[1]>>,
           bozo_exception |-> "bozo"]}

\* The feeds the bot's reader meets: those of at most one entry.
BotFeeds == {f \in Feeds : Len(f.entries) <= 1}

\* The registered lists a reader can be constructed with: no url twice.
UrlSeqs ==
    {s \in UNION {[1..n -> URLs] : n \in 0..Cardinality(URLs)} :
        \A i, j \in 1..Len(s) : i # j => s[i] # s[j]}

----------------------------------------------------------------------------
(* RSSReader *)

\* The published time of an entry processed at time t.
PublishedTime(entry, t) ==
    IF "published_parsed" \in DOMAIN entry THEN entry.published_parsed
    ELSE IF "updated_parsed" \in DOMAIN entry THEN entry.updated_parsed
    ELSE t

IsNewMutant(published_time, checked) == published_time >= checked

\* "Check if this is a new article".
IsNew(published_time, checked) == published_time > checked

\* The article dictionary built from a new entry.  feed_url and entry are
\* history fields: the url the article came from and the raw entry.
Article(entry, published_time, feed, url) ==
    [title     |-> entry.title,
     published |-> published_time,
     source    |-> IF "title" \in DOMAIN feed.feed THEN feed.feed.title ELSE <<"Unknown">>,
     summary   |-> IF "summary" \in DOMAIN entry THEN entry.summary ELSE <<>>,
     content   |-> IF "content" \in DOMAIN entry THEN entry.content[1].value ELSE <<>>,
     feed_url  |-> url,
     entry     |-> entry]

\* The for loop over feed.entries from position i on, at time t, with the
\* articles appended so far: the articles appended in all, and whether the
\* loop was left by an exception (entry.title of an entry without a title).
RECURSIVE ProcessEntries(_, _, _, _, _, _)
ProcessEntries(feed, url, checked, t, i, acc) ==
    IF i > Len(feed.entries) THEN [articles |-> acc, raised |-> FALSE]
    ELSE LET entry == feed.entries[i]
             published_time == PublishedTime(entry, t)
         IN  IF IsNew(published_time, checked)
             THEN IF "title" \in DOMAIN entry
                  THEN ProcessEntries(feed, url, checked, t, i + 1,
                           Append(acc, Article(entry, published_time, feed, url)))
                  ELSE [articles |-> acc, raised |-> TRUE]
             ELSE ProcessEntries(feed, url, checked, t, i + 1, acc)

----------------------------------------------------------------------------
(* The summarizers *)

\* Python's None, where a string is expected: a piece no string holds.
None == <<"<None>">>

\* bool(x) of a string or None.
Truthy(x) == x # <<>> /\ x # None

\* dict.get(key, default)
Get(d, key, default) == IF key \in DOMAIN d THEN d[key] ELSE default

Upper == {"A", "B", "C", "D", "T"}
Lower == {"a", "b", "c", "d", "t"}
Digit == {"1"}
Space == {" "}

\* str.lower() of one character.
ToLower(c) ==
    CASE c = "A" -> "a" [] c = "B" -> "b" [] c = "C" -> "c" [] c = "D" -> "d"
      [] c = "T" -> "t" [] OTHER -> c

\* \w and \s of the regular expressions.
IsWordChar(c) == c \in Upper \cup Lower \cup Digit \cup {"_"}
IsSpace(c) == c \in Space

\* str.strip()
RECURSIVE Strip(_)
Strip(x) ==
    IF x = <<>> THEN x
    ELSE IF IsSpace(Head(x)) THEN Strip(Tail(x))
    ELSE IF IsSpace(x[Len(x)]) THEN Strip(SubSeq(x, 1, Len(x) - 1))
    ELSE x

\* The positions where _extract_sentences splits: a whitespace character
\* that follows ".", "?" or "!", unless the four characters before it are
\* word character, ".", word character, any character, or the three before
\* it are an upper case letter, a lower case letter and ".".
SplitAt(text) ==
    {i \in 2..Len(text) :
        /\ IsSpace(text[i])
        /\ text[i - 1] \in {".", "?", "!"}
        /\ ~(/\ i >= 5
             /\ IsWordChar(text[i - 4])
             /\ text[i - 3] = "."
             /\ IsWordChar(text[i - 2]))
        /\ ~(/\ i >= 4
             /\ text[i - 3] \in Upper
             /\ text[i - 2] \in Lower
             /\ text[i - 1] = ".")}

\* re.split: the parts of text from position from on, cut at the split
\* positions.
RECURSIVE Parts(_, _)
Parts(text, from) ==
    LET cuts == {i \in SplitAt(text) : i >= from}
    IN  IF cuts = {} THEN <<SubSeq(text, from, Len(text))>>
        ELSE LET i == CHOOSE c \in cuts : \A d \in cuts : c <= d
             IN  <<SubSeq(text, from, i - 1)>> \o Parts(text, i + 1)

\* _extract_sentences: the parts, stripped, the empty ones dropped.
ExtractSentences(text) ==
    LET parts    == Parts(text, 1)
        stripped == [i \in 1..Len(parts) |-> Strip(parts[i])]
    IN  SelectSeq(stripped, LAMBDA x : x # <<>>)

\* re.sub(r'[^\w\s]', '', sentence.lower())
Cleaned(sentence) ==
    SelectSeq([i \in 1..Len(sentence) |-> ToLower(sentence[i])],
              LAMBDA c : IsWordChar(c) \/ IsSpace(c))

\* str.split(): the maximal runs of characters that are not whitespace.
RECURSIVE SplitWords(_, _)
SplitWords(x, word) ==
    IF x = <<>> THEN (IF word = <<>> THEN <<>> ELSE <<word>>)
    ELSE IF IsSpace(Head(x))
         THEN (IF word = <<>> THEN <<>> ELSE <<word>>) \o SplitWords(Tail(x), <<>>)
         ELSE SplitWords(Tail(x), Append(word, Head(x)))

WordsOf(sentence) == SplitWords(Cleaned(sentence), <<>>)

RECURSIVE SumOver(_, _)
SumOver(f, n) == IF n = 0 THEN 0 ELSE f[n] + SumOver(f, n - 1)

\* word_freq: how often the word occurs in all the sentences.
WordFreq(sentences, word) ==
    SumOver([i \in 1..Len(sentences) |->
                Cardinality({j \in 1..Len(WordsOf(sentences[i])) :
                                WordsOf(sentences[i])[j] = word})],
            Len(sentences))

\* _score_sentences: index -> the sum of the frequencies of the sentence's
\* words over max(1, the number of its words), as numerator and denominator.
ScoreSentences(sentences) ==
    [i \in 1..Len(sentences) |->
        LET words == WordsOf(sentences[i])
        IN  [num |-> SumOver([j \in 1..Len(words) |-> WordFreq(sentences, words[j])],
                             Len(words)),
             den |-> IF Len(words) > 1 THEN Len(words) ELSE 1]]

\* x > y and x = y for two such quotients.
Above(x, y) == x.num * y.den > y.num * x.den
Level(x, y) == x.num * y.den = y.num * x.den

Min(a, b) == IF a < b THEN a ELSE b
Max(a, b) == IF a > b THEN a ELSE b

\* min(3, max(2, len(sentences) // 5))
NumSentences(n) == Min(3, Max(2, n \div 5))

\* One step of the stable descending sort: index i is put behind every index
\* whose score is not below its own.
RECURSIVE InsertByScore(_, _, _)
InsertByScore(sorted, i, scores) ==
    IF sorted = <<>> THEN <<i>>
    ELSE IF Above(scores[i], scores[Head(sorted)]) THEN <<i>> \o sorted
    ELSE <<Head(sorted)>> \o InsertByScore(Tail(sorted), i, scores)

\* sorted(scores, key=scores.get, reverse=True): the first n indices by
\* descending score; the sort is stable, so indices of equal score stay in
\* the order of the dictionary, which is index order.
RECURSIVE SortedByScore(_, _)
SortedByScore(scores, n) ==
    IF n = 0 THEN <<>>
    ELSE InsertByScore(SortedByScore(scores, n - 1), n, scores)

\* One step of the ascending sort of indices.
RECURSIVE InsertAscending(_, _)
InsertAscending(sorted, i) ==
    IF sorted = <<>> THEN <<i>>
    ELSE IF i < Head(sorted) THEN <<i>> \o sorted
    ELSE <<Head(sorted)>> \o InsertAscending(Tail(sorted), i)

SortMutant(indices) == indices

\* top_indices.sort()
RECURSIVE Sort(_)
Sort(indices) ==
    IF indices = <<>> THEN <<>>
    ELSE InsertAscending(Sort(Tail(indices)), Head(indices))

\* sorted(scores, key=scores.get, reverse=True)[:num_sentences], then
\* top_indices.sort()
TopIndices(scores, num_sentences) ==
    Sort(SubSeq(SortedByScore(scores, Len(scores)), 1,
                Min(num_sentences, Len(scores))))

\* ' '.join(strings)
RECURSIVE Join(_)
Join(strings) ==
    IF strings = <<>> THEN <<>>
    ELSE IF Len(strings) = 1 THEN strings[1]
    ELSE strings[1] \o <<" ">> \o Join(Tail(strings))

NoContentMessage(title) == <<"No content available to summarize for ">> \o title

\* article.get('content', article.get('summary', ''))
SelectText(a) == Get(a, "content", Get(a, "summary", <<>>))

NothingToSummarizeMutant(text) == text = None

\* "if not text_to_summarize"
NothingToSummarize(text) == ~Truthy(text)

\* SimpleSummarizer.summarize_article
SimpleSummarizeArticle(a) ==
    LET title             == Get(a, "title", <<"Untitled Article">>)
        text_to_summarize == SelectText(a)
        sentences         == ExtractSentences(text_to_summarize)
        scores            == ScoreSentences(sentences)
        top_indices       == TopIndices(scores, NumSentences(Len(sentences)))
    IN  [summarizer        |-> "SimpleSummarizer",
         text_to_summarize |-> text_to_summarize,
         requests          |-> <<>>,
         result            |->
            IF NothingToSummarize(text_to_summarize) THEN NoContentMessage(title)
            ELSE IF Len(sentences) <= 2 THEN text_to_summarize
            ELSE Join([i \in 1..Len(top_indices) |-> sentences[top_indices[i]]])]

\* The prompt and the request of openai.ChatCompletion.create.
Prompt(title, text) ==
    <<"Please create a concise 2-3 sentence summary of this AI-related article. ",
      "Focus on the key innovations, findings, or announcements. ",
      "Title: ">> \o title \o <<"Content: ">> \o text

Request(title, text) ==
    [model |-> "gpt-3.5-turbo",
     messages |-> << [role |-> "system",
                      content |-> <<"You are a helpful assistant that summarizes AI news articles concisely.">>],
                     [role |-> "user", content |-> Prompt(title, text)] >>,
     max_tokens |-> 150,
     temperature |-> <<3, 10>>]

\* What the completion request comes back with: a response, or an exception.
Responses ==
    {[content |-> <<" ", "A", ".", " ">>], [exception |-> <<"timeout">>]}

\* AISummarizer.summarize_article, the completion request answered by
\* response.
AISummarizeArticle(key, a, response) ==
    IF ~Truthy(key)
    THEN [summarizer |-> "AISummarizer", requests |-> <<>>, result |-> None]
    ELSE LET title             == Get(a, "title", <<"Untitled Article">>)
             text_to_summarize == SelectText(a)
         IN  IF NothingToSummarize(text_to_summarize)
             THEN [summarizer        |-> "AISummarizer",
                   text_to_summarize |-> text_to_summarize,
                   requests          |-> <<>>,
                   result            |-> NoContentMessage(title)]
             ELSE [summarizer        |-> "AISummarizer",
                   text_to_summarize |-> text_to_summarize,
                   requests          |-> <<Request(title, text_to_summarize)>>,
                   result            |->
                      IF "exception" \in DOMAIN response
                      THEN <<"Error summarizing article: ">> \o response.exception
                      ELSE Strip(response.content)]

\* The texts an article can carry: one, three and four sentences.
Texts ==
    { <<"A", " ", "b", ".">>,
      <<"A", ".", " ", "B", " ", "a", ".", " ", "C", "?">>,
      <<"a", " ", "b", ".", " ", "c", "!", " ", "a", " ", "d", ".", " ", "b", " ", "a", ".">> }

\* The articles handed to a summarizer: with or without a title, and with
\* content and summary each missing, empty or a text.
Articles ==
    {[k \in ks |-> IF k = "title" THEN <<"T">> ELSE IF k = "content" THEN c ELSE sm] :
        ks \in SUBSET {"title", "content", "summary"},
        c \in {<<>>} \cup Texts, sm \in {<<>>} \cup Texts}

\* The longest of the short texts, in sentences.
MaxSentences == 4

\* The sentences of the short texts; the last one is not split after "Ab.".
Vocabulary ==
    { <<"a", ".">>, <<"b", " ", "a", "?">>, <<"c", "!">>,
      <<"A", "b", ".", " ", "c", ".">> }

ShortTexts ==
    {Join(sentences) :
        sentences \in UNION {[1..n -> Vocabulary] : n \in 0..MaxSentences}}

\* The long texts: fourteen or fifteen sentences, all the same but for at
\* most two marked positions (position 0: no mark), which carry one of three
\* others; two of these score the same.
LongLengths == {14, 15}

Unmarked == <<"b", " ", "d", "?">>

Marked == { <<"b", ".">>, <<"b", "!">>, <<"b", " ", "a", "!">> }

LongTexts ==
    UNION {{Join([i \in 1..n |->
                    IF first[1] = i THEN first[2]
                    ELSE IF second[1] = i THEN second[2]
                    ELSE Unmarked]) :
               first \in (0..n) \X Marked, second \in (0..n) \X Marked} :
           n \in LongLengths}

\* The articles whose text the extractive summarizer is checked on.
ExtractArticles ==
    {[title |-> <<"T">>, content |-> text] : text \in ShortTexts \cup LongTexts}

\* The summarizers before any call.
InitSummarizers ==
    /\ article \in Articles
    /\ api_key \in {None, <<"k">>}
    /\ summarized = [summarizer |-> "none"]
    /\ batch_articles = <<>>
    /\ batch_summarized = [summarizer |-> "none"]

SimpleSummarize ==
    /\ summarized' = SimpleSummarizeArticle(article)
    /\ UNCHANGED <<article, api_key, batch_articles, batch_summarized>>

AISummarize ==
    /\ \E response \in Responses :
         summarized' = AISummarizeArticle(api_key, article, response)
    /\ UNCHANGED <<article, api_key, batch_articles, batch_summarized>>

----------------------------------------------------------------------------
(* The reader's methods *)

\* The first step after get_new_articles has returned: its list and the
\* records of the poll are with the caller, no longer in the reader.
Idle == pc \in {"idle", "returned"}

NoEntry == <<>>

\* __init__: one last_check entry per url, a day before construction.
InitReader(urls) ==
    /\ feed_urls = urls
    /\ now = 0
    /\ last_check = [u \in Range(feed_urls) |-> now - Day]
    /\ pc = "idle"
    /\ idx = 0
    /\ all_new_articles = <<>>
    /\ cycle = <<>>
    /\ last_call = [op |-> "__init__"]
    /\ watch = NoEntry

\* Time passes.
Tick ==
    /\ now < MaxTime
    /\ now' = now + 1
    /\ UNCHANGED <<feed_urls, last_check, pc, idx, all_new_articles, cycle,
                   last_call, watch>>

add_feedMutant(url) ==
    /\ Idle
    /\ feed_urls' = IF url \notin Range(feed_urls) THEN Append(feed_urls, url)
                    ELSE feed_urls
    /\ last_check' = [u \in DOMAIN last_check \cup {url} |->
                         IF u = url THEN now - Day ELSE last_check[u]]
    /\ pc' = "idle"
    /\ idx' = 0
    /\ all_new_articles' = <<>>
    /\ cycle' = <<>>
    /\ last_call' = [op |-> "add_feed", url |-> url]
    /\ UNCHANGED <<now, watch>>

\* add_feed: a url not yet in the list is appended, with its last check a
\* day ago; a url in the list is only logged.
add_feed(url) ==
    /\ Idle
    /\ IF url \notin Range(feed_urls)
       THEN /\ feed_urls' = Append(feed_urls, url)
            /\ last_check' = [u \in DOMAIN last_check \cup {url} |->
                                 IF u = url THEN now - Day ELSE last_check[u]]
       ELSE UNCHANGED <<feed_urls, last_check>>
    /\ pc' = "idle"
    /\ idx' = 0
    /\ all_new_articles' = <<>>
    /\ cycle' = <<>>
    /\ last_call' = [op |-> "add_feed", url |-> url]
    /\ UNCHANGED <<now, watch>>

\* list.remove(url): the list without its first url.
Remove(s, url) ==
    LET i == CHOOSE k \in 1..Len(s) : s[k] = url /\ \A j \in 1..(k - 1) : s[j] # url
    IN  SubSeq(s, 1, i - 1) \o SubSeq(s, i + 1, Len(s))

remove_feed(url) ==
    /\ Idle
    /\ IF url \in Range(feed_urls)
       THEN /\ feed_urls' = Remove(feed_urls, url)
            /\ last_check' = [u \in DOMAIN last_check \ {url} |-> last_check[u]]
            /\ watch' = IF watch # NoEntry /\ watch[1].url = url THEN NoEntry ELSE watch
       ELSE UNCHANGED <<feed_urls, last_check, watch>>
    /\ pc' = "idle"
    /\ idx' = 0
    /\ all_new_articles' = <<>>
    /\ cycle' = <<>>
    /\ last_call' = [op |-> "remove_feed", url |-> url]
    /\ UNCHANGED now

\* get_new_articles is entered: the empty list, the for loop at its start.
get_new_articles ==
    /\ Idle
    /\ pc' = "polling"
    /\ idx' = 1
    /\ all_new_articles' = <<>>
    /\ cycle' = <<>>
    /\ last_call' = [op |-> "get_new_articles"]
    /\ UNCHANGED <<feed_urls, last_check, now, watch>>

\* The entries of feed.entries the for loop reached when run at time t
\* against the last check time: all of them, or those up to the one that
\* raised.
RECURSIVE Reached(_, _, _, _)
Reached(entries, checked, t, i) ==
    IF i > Len(entries) THEN {}
    ELSE IF IsNew(PublishedTime(entries[i], t), checked)
            /\ "title" \notin DOMAIN entries[i]
         THEN {entries[i]}
         ELSE {entries[i]} \cup Reached(entries, checked, t, i + 1)

\* The history of one item: the item watched, whenever the loop reaches it,
\* is recorded with the published time it has this time; while nothing is
\* watched any item the loop reaches may become the watched one (when the
\* history is kept at all).
Watched(watching, url, reached, t) ==
    IF ~watching THEN {watch}
    ELSE IF watch = NoEntry
    THEN {NoEntry} \cup {<<[url |-> url, entry |-> e, published |-> PublishedTime(e, t)]>> :
                            e \in reached}
    ELSE IF watch[1].url = url /\ watch[1].entry \in reached
         THEN {<<[watch[1] EXCEPT !.published = PublishedTime(watch[1].entry, t)]>>}
         ELSE {watch}

AfterExceptMutant(i) == Len(feed_urls) + 1

\* The except clause sits inside the for loop: the exception is logged and
\* the loop takes its next turn.
AfterExcept(i) == i + 1

\* One turn of "for url in self.feed_urls" in which feedparser.parse raises:
\* the except clause logs it and the loop goes on.
FetchRaises ==
    /\ pc = "polling"
    /\ idx <= Len(feed_urls)
    /\ LET url == feed_urls[idx]
       IN  cycle' = [u \in DOMAIN cycle \cup {url} |->
                        IF u = url
                        THEN [outcome |-> "fetch_raised", entries |-> <<>>,
                              checked |-> last_check[url], at |-> now]
                        ELSE cycle[u]]
    /\ idx' = AfterExcept(idx)
    /\ UNCHANGED <<feed_urls, last_check, now, pc, all_new_articles, last_call, watch>>

\* One turn of the loop in which the parsed feed carries a bozo_exception:
\* logged, "continue".
FetchBozo(feeds) ==
    /\ pc = "polling"
    /\ idx <= Len(feed_urls)
    /\ \E feed \in {f \in feeds : "bozo_exception" \in DOMAIN f} :
         LET url == feed_urls[idx]
         IN  cycle' = [u \in DOMAIN cycle \cup {url} |->
                          IF u = url
                          THEN [outcome |-> "bozo", entries |-> feed.entries,
                                checked |-> last_check[url], at |-> now]
                          ELSE cycle[u]]
    /\ idx' = idx + 1
    /\ UNCHANGED <<feed_urls, last_check, now, pc, all_new_articles, last_call, watch>>

NextLastCheckMutant(url, r, t) == [last_check EXCEPT ![url] = t]

\* The last check times after the entries of url were processed with result
\* r at time t: the assignment is the last statement of the try block, so
\* an exception before it leaves them as they were.
NextLastCheck(url, r, t) ==
    IF r.raised THEN last_check ELSE [last_check EXCEPT ![url] = t]

\* One turn of the loop with a parsed feed: its entries are processed, the
\* new ones appended, and the last check time of the url is set; an
\* exception from an entry ends the turn in the except clause.
FetchEntries(watching, feeds) ==
    /\ pc = "polling"
    /\ idx <= Len(feed_urls)
    /\ \E feed \in {f \in feeds : "bozo_exception" \notin DOMAIN f} :
         LET url == feed_urls[idx]
             r   == ProcessEntries(feed, url, last_check[url], now, 1, all_new_articles)
         IN  /\ all_new_articles' = r.articles
             /\ last_check' = NextLastCheck(url, r, now)
             /\ cycle' = [u \in DOMAIN cycle \cup {url} |->
                             IF u = url
                             THEN [outcome |-> IF r.raised THEN "entry_raised" ELSE "ok",
                                   entries |-> feed.entries,
                                   checked |-> last_check[url], at |-> now]
                             ELSE cycle[u]]
             /\ watch' \in Watched(watching, url,
                                  Reached(feed.entries, last_check[url], now, 1), now)
             /\ idx' = IF r.raised THEN AfterExcept(idx) ELSE idx + 1
    /\ UNCHANGED <<feed_urls, now, pc, last_call>>

\* The for loop is over: the list is returned.
Return ==
    /\ pc = "polling"
    /\ idx > Len(feed_urls)
    /\ pc' = "returned"
    /\ UNCHANGED <<feed_urls, last_check, now, idx, all_new_articles, cycle,
                   last_call, watch>>

----------------------------------------------------------------------------
(* The notifier and the orchestrator *)

\* time.sleep(check_interval), in clock units.
CheckInterval == 1

\* article.copy() with the summary put under 'ai_summary'.
WithSummary(a, summary) ==
    [k \in DOMAIN a \cup {"ai_summary"} |->
        IF k = "ai_summary" THEN summary ELSE a[k]]

BatchSummarizeMutant(which, key, articles, responses) ==
    SelectSeq([i \in 1..Len(articles) |->
                  WithSummary(articles[i],
                      IF which = "AISummarizer"
                      THEN AISummarizeArticle(key, articles[i], responses[i]).result
                      ELSE SimpleSummarizeArticle(articles[i]).result)],
              LAMBDA r : r.ai_summary # None)

\* batch_summarize of either summarizer: a copy of each article with the
\* summary added as ai_summary; responses[i] answers the completion request
\* made for the i-th article, if one is made.
BatchSummarize(which, key, articles, responses) ==
    [i \in 1..Len(articles) |->
        LET a       == articles[i]
            summary == IF which = "AISummarizer"
                       THEN AISummarizeArticle(key, a, responses[i]).result
                       ELSE SimpleSummarizeArticle(a).result
        IN  WithSummary(a, summary)]

\* The longest list handed to batch_summarize on its own.
MaxBatch == 2

\* The articles of such a list: with or without a title, content and summary
\* each missing, empty or one sentence.
BatchArticles ==
    {a \in Articles :
        \A k \in DOMAIN a : a[k] \in {<<>>, <<"T">>, <<"A", " ", "b", ".">>}}

ArticleLists == UNION {[1..n -> BatchArticles] : n \in 0..MaxBatch}

\* SimpleSummarizer.batch_summarize(articles): the articles themselves are
\* only read, the summaries are written into the copies.
SimpleBatchSummarize ==
    /\ batch_summarized' =
          [summarizer |-> "SimpleSummarizer",
           result     |-> BatchSummarize("SimpleSummarizer", api_key,
                                        batch_articles, <<>>)]
    /\ UNCHANGED <<article, api_key, summarized, batch_articles>>

\* AISummarizer.batch_summarize(articles).
AIBatchSummarize ==
    /\ \E responses \in [1..Len(batch_articles) -> Responses] :
         batch_summarized' =
             [summarizer |-> "AISummarizer",
              responses  |-> responses,
              result     |-> BatchSummarize("AISummarizer", api_key,
                                           batch_articles, responses)]
    /\ UNCHANGED <<article, api_key, summarized, batch_articles>>

\* What chat_postMessage does with one notification: it goes through, the
\* API refuses it (SlackApiError), or the call fails otherwise (no
\* connection, a timeout).
PostOutcomes == {"ok", "SlackApiError", "other_error"}

\* AINewsBot.__init__ : the summarizer is the generative one when the key is
\* there, else the extractive one; the notifier has a client when the token
\* is there.
InitBot ==
    /\ bot_pc = "run_once"
    /\ summarizer = IF Truthy(api_key) THEN "AISummarizer" ELSE "SimpleSummarizer"
    /\ slack \in {[client |-> TRUE, channel |-> TRUE], [client |-> FALSE, channel |-> TRUE]}
    /\ summarized_articles = <<>>
    /\ post_i = 0
    /\ success_count = 0
    /\ run_once_result = <<>>
    /\ posted = 0
    /\ attempted = 0
    /\ interrupted_at = "nowhere"

\* The bot, not in use.
NoBot ==
    /\ bot_pc = "off"
    /\ summarizer = "SimpleSummarizer"
    /\ slack = [client |-> FALSE, channel |-> FALSE]
    /\ summarized_articles = <<>>
    /\ post_i = 0
    /\ success_count = 0
    /\ run_once_result = <<>>
    /\ posted = 0
    /\ attempted = 0
    /\ interrupted_at = "nowhere"

\* run_once step 1: get_new_articles is called.
RunOncePoll ==
    /\ bot_pc = "run_once"
    /\ get_new_articles
    /\ bot_pc' = "poll"
    /\ summarized_articles' = <<>>
    /\ post_i' = 0
    /\ success_count' = 0
    /\ posted' = 0
    /\ attempted' = 0
    /\ UNCHANGED <<summarizer, slack, run_once_result, interrupted_at, summarizerVars>>

\* The turns of get_new_articles' loop.
RunOncePolling ==
    /\ bot_pc = "poll"
    /\ FetchRaises \/ FetchBozo(BotFeeds) \/ FetchEntries(FALSE, BotFeeds)
    /\ UNCHANGED <<botVars, summarizerVars>>

\* get_new_articles returns: with no new articles run_once returns 0, else it
\* goes on to the summaries.
RunOncePolled ==
    /\ bot_pc = "poll"
    /\ Return
    /\ IF all_new_articles = <<>>
       THEN /\ run_once_result' = <<0>>
            /\ bot_pc' = "sleep"
       ELSE /\ run_once_result' = run_once_result
            /\ bot_pc' = "summarize"
    /\ UNCHANGED <<summarizer, slack, summarized_articles, post_i, success_count,
                   posted, attempted, interrupted_at, summarizerVars>>

\* run_once step 2: batch_summarize.
RunOnceSummarize ==
    /\ bot_pc = "summarize"
    /\ \E responses \in [1..Len(all_new_articles) -> Responses] :
         summarized_articles' =
             BatchSummarize(summarizer, api_key, all_new_articles, responses)
    /\ bot_pc' = "post"
    /\ post_i' = 1
    /\ success_count' = 0
    /\ UNCHANGED <<summarizer, slack, run_once_result, posted, attempted,
                   interrupted_at, readerVars, summarizerVars>>

CycleFaultMutant == "failed"

\* A fault inside run_once is caught by its except clause: run_once returns 0
\* and run_continuously goes on to sleep.
CycleFault == "sleep"

\* run_once step 3, one turn of send_batch_notifications' loop:
\* send_article_notification returns False without a client or a channel,
\* True when the message is posted, False on a SlackApiError; any other
\* exception leaves it, and send_batch_notifications, for run_once's except
\* clause.
RunOncePost ==
    /\ bot_pc = "post"
    /\ post_i <= Len(summarized_articles)
    /\ attempted' = attempted + 1
    /\ \/ /\ ~(slack.client /\ slack.channel)
          /\ UNCHANGED <<success_count, posted, run_once_result, bot_pc>>
          /\ post_i' = post_i + 1
       \/ /\ slack.client /\ slack.channel
          /\ \E outcome \in PostOutcomes :
               CASE outcome = "ok" ->
                        /\ success_count' = success_count + 1
                        /\ posted' = posted + 1
                        /\ post_i' = post_i + 1
                        /\ UNCHANGED <<run_once_result, bot_pc>>
                 [] outcome = "SlackApiError" ->
                        /\ post_i' = post_i + 1
                        /\ UNCHANGED <<success_count, posted, run_once_result, bot_pc>>
                 [] OTHER ->
                        /\ run_once_result' = <<0>>
                        /\ bot_pc' = CycleFault
                        /\ UNCHANGED <<success_count, posted, post_i>>
    /\ UNCHANGED <<summarizer, slack, summarized_articles, interrupted_at,
                   readerVars, summarizerVars>>

\* send_batch_notifications returns success_count and run_once returns it.
RunOnceReturn ==
    /\ bot_pc = "post"
    /\ post_i > Len(summarized_articles)
    /\ run_once_result' = <<success_count>>
    /\ bot_pc' = "sleep"
    /\ UNCHANGED <<summarizer, slack, summarized_articles, post_i, success_count,
                   posted, attempted, interrupted_at, readerVars, summarizerVars>>

\* run_continuously: time.sleep(check_interval), then the next run_once.
Sleep ==
    /\ bot_pc = "sleep"
    /\ now + CheckInterval <= MaxTime
    /\ now' = now + CheckInterval
    /\ bot_pc' = "run_once"
    /\ UNCHANGED <<feed_urls, last_check, pc, idx, all_new_articles, cycle,
                   last_call, watch>>
    /\ UNCHANGED <<summarizer, slack, summarized_articles, post_i, success_count,
                   run_once_result, posted, attempted, interrupted_at, summarizerVars>>

\* A KeyboardInterrupt reaches the process, wherever the loop is: no except
\* clause below run_continuously' own catches it, and that one ends the loop.
KeyboardInterrupt ==
    /\ bot_pc \in {"run_once", "poll", "summarize", "post", "sleep"}
    /\ interrupted_at' = bot_pc
    /\ bot_pc' = "stopped"
    /\ UNCHANGED <<summarizer, slack, summarized_articles, post_i, success_count,
                   run_once_result, posted, attempted, readerVars, summarizerVars>>

----------------------------------------------------------------------------
(* The specifications *)

\* The summarizers, not in use.
NoSummarizers ==
    /\ article = [title |-> <<"T">>]
    /\ api_key = None
    /\ summarized = [summarizer |-> "none"]
    /\ batch_articles = <<>>
    /\ batch_summarized = [summarizer |-> "none"]

\* The reader under any sequence of calls.
Init ==
    /\ \E urls \in UrlSeqs : InitReader(urls)
    /\ NoSummarizers
    /\ NoBot

Next ==
    \/ Tick /\ UNCHANGED <<summarizerVars, botVars>>
    \/ \E url \in URLs : add_feed(url) /\ UNCHANGED <<summarizerVars, botVars>>
    \/ \E url \in URLs : remove_feed(url) /\ UNCHANGED <<summarizerVars, botVars>>
    \/ get_new_articles /\ UNCHANGED <<summarizerVars, botVars>>
    \/ FetchRaises /\ UNCHANGED <<summarizerVars, botVars>>
    \/ FetchBozo(Feeds) /\ UNCHANGED <<summarizerVars, botVars>>
    \/ FetchEntries(FALSE, Feeds) /\ UNCHANGED <<summarizerVars, botVars>>
    \/ Return /\ UNCHANGED <<summarizerVars, botVars>>

Spec == Init /\ [][Next]_vars

\* The same reader, with the history of one item kept.
NextWatch ==
    \/ Tick /\ UNCHANGED <<summarizerVars, botVars>>
    \/ \E url \in URLs : add_feed(url) /\ UNCHANGED <<summarizerVars, botVars>>
    \/ \E url \in URLs : remove_feed(url) /\ UNCHANGED <<summarizerVars, botVars>>
    \/ get_new_articles /\ UNCHANGED <<summarizerVars, botVars>>
    \/ FetchRaises /\ UNCHANGED <<summarizerVars, botVars>>
    \/ FetchBozo(Feeds) /\ UNCHANGED <<summarizerVars, botVars>>
    \/ FetchEntries(TRUE, Feeds) /\ UNCHANGED <<summarizerVars, botVars>>
    \/ Return /\ UNCHANGED <<summarizerVars, botVars>>

SpecWatch == Init /\ [][NextWatch]_vars

\* The two summarizers, each called on any article.
InitSum ==
    /\ InitReader(<<>>)
    /\ InitSummarizers
    /\ NoBot

NextSum ==
    \/ SimpleSummarize /\ UNCHANGED <<readerVars, botVars>>
    \/ AISummarize /\ UNCHANGED <<readerVars, botVars>>

SpecSum == InitSum /\ [][NextSum]_vars

\* The extractive summarizer, called on short and on long texts.
InitExtract ==
    /\ InitReader(<<>>)
    /\ article \in ExtractArticles
    /\ api_key = None
    /\ summarized = [summarizer |-> "none"]
    /\ batch_articles = <<>>
    /\ batch_summarized = [summarizer |-> "none"]
    /\ NoBot

NextExtract == SimpleSummarize /\ UNCHANGED <<readerVars, botVars>>

SpecExtract == InitExtract /\ [][NextExtract]_vars

\* batch_summarize of the two summarizers, called on any list of articles.
InitBatch ==
    /\ InitReader(<<>>)
    /\ article = [title |-> <<"T">>]
    /\ api_key \in {None, <<"k">>}
    /\ summarized = [summarizer |-> "none"]
    /\ batch_articles \in ArticleLists
    /\ batch_summarized = [summarizer |-> "none"]
    /\ NoBot

NextBatch ==
    \/ SimpleBatchSummarize /\ UNCHANGED <<readerVars, botVars>>
    \/ AIBatchSummarize /\ UNCHANGED <<readerVars, botVars>>

SpecBatch == InitBatch /\ [][NextBatch]_vars

\* The bot in continuous mode.
InitBotSpec ==
    /\ \E urls \in {<<"a">>, <<"a", "b">>} : InitReader(urls)
    /\ article = [title |-> <<"T">>]
    /\ api_key \in {None, <<"k">>}
    /\ summarized = [summarizer |-> "none"]
    /\ batch_articles = <<>>
    /\ batch_summarized = [summarizer |-> "none"]
    /\ InitBot

NextBot ==
    \/ RunOncePoll
    \/ RunOncePolling
    \/ RunOncePolled
    \/ RunOnceSummarize
    \/ RunOncePost
    \/ RunOnceReturn
    \/ Sleep
    \/ KeyboardInterrupt

SpecBot == InitBotSpec /\ [][NextBot]_vars

----------------------------------------------------------------------------
(* The claims about the reader *)

\* The effective published time of an item processed at time t: its
\* published timestamp, else its updated timestamp, else the time t.
Effective(e, t) ==
    IF "published_parsed" \in DOMAIN e THEN e.published_parsed
    ELSE IF "updated_parsed" \in DOMAIN e THEN e.updated_parsed
    ELSE t

\* The result so far, as (url, item, effective published time) triples.
Emitted ==
    [i \in 1..Len(all_new_articles) |->
        [url |-> all_new_articles[i].feed_url,
         entry |-> all_new_articles[i].entry,
         published |-> all_new_articles[i].published]]

\* The items of one url's feed that are newer than its watermark, in feed
\* order, as triples.
NewItems(u) ==
    LET c     == cycle[u]
        newer == SelectSeq(c.entries, LAMBDA e : Effective(e, c.at) > c.checked)
    IN  [i \in 1..Len(newer) |->
            [url |-> u, entry |-> newer[i], published |-> Effective(newer[i], c.at)]]

Faulted(u) == cycle[u].outcome \in {"fetch_raised", "bozo", "entry_raised"}

\* The concatenation, in registration order from position i on, of the new
\* items of the urls that had no fault.
RECURSIVE NewOfSound(_)
NewOfSound(i) ==
    IF i > Len(feed_urls) THEN <<>>
    ELSE (IF Faulted(feed_urls[i]) THEN <<>> ELSE NewItems(feed_urls[i]))
         \o NewOfSound(i + 1)

\* C1: once an item has been processed by a poll and its source's watermark
\* is at or above the effective published time it had in that poll, no later
\* poll emits the item again, as long as the source stays registered.
C1_NeverEmittedAgain ==
    [][(/\ watch # NoEntry
        /\ watch[1].url \in DOMAIN last_check
        /\ last_check[watch[1].url] >= watch[1].published)
       => ~\E i \in (Len(all_new_articles) + 1)..Len(all_new_articles') :
              /\ all_new_articles'[i].feed_url = watch[1].url
              /\ all_new_articles'[i].entry = watch[1].entry]_vars

\* C1 for the items that carry a date of their own: an item with a published
\* or an updated timestamp is not emitted again once the watermark is at or
\* above it.
C1_DatedNeverEmittedAgain ==
    [][(/\ watch # NoEntry
        /\ DOMAIN watch[1].entry \cap {"published_parsed", "updated_parsed"} # {}
        /\ watch[1].url \in DOMAIN last_check
        /\ last_check[watch[1].url] >= watch[1].published)
       => ~\E i \in (Len(all_new_articles) + 1)..Len(all_new_articles') :
              /\ all_new_articles'[i].feed_url = watch[1].url
              /\ all_new_articles'[i].entry = watch[1].entry]_vars

C3_OnlyNewerIncluded ==
    \A i \in 1..Len(all_new_articles) :
        LET a == all_new_articles[i]
        IN  /\ a.feed_url \in DOMAIN cycle
            /\ Effective(a.entry, cycle[a.feed_url].at) > cycle[a.feed_url].checked

\* A poll that kept one item of a feed and left out another whose effective
\* published time equals the watermark.
C3_Witness ==
    /\ pc = "returned"
    /\ \E u \in DOMAIN cycle :
          /\ cycle[u].outcome = "ok"
          /\ \E a \in Range(Emitted) : a.url = u
          /\ \E e \in Range(cycle[u].entries) :
                /\ Effective(e, cycle[u].at) = cycle[u].checked
                /\ \A a \in Range(Emitted) : ~(a.url = u /\ a.entry = e)

\* C4: when the poll has returned, the result holds nothing of a url that had
\* a fault, and of every other url exactly its new items.
C4_FaultedSourceContributesNothing ==
    pc = "returned" => Emitted = NewOfSound(1)

\* C5: when the poll has returned, every registered url has been fetched in
\* this poll, whatever faults the urls before it had, and the new items of
\* the urls that had no fault are in the result, in registration order.
C5_FaultDoesNotAbortPoll ==
    pc = "returned" =>
        /\ \A u \in Range(feed_urls) : u \in DOMAIN cycle
        /\ SelectSeq(Emitted, LAMBDA a : ~Faulted(a.url)) = NewOfSound(1)

\* A poll whose first url had a fault and whose second url's new items are
\* in the result.
C5_Witness ==
    /\ pc = "returned"
    /\ Len(feed_urls) = 2
    /\ Faulted(feed_urls[1])
    /\ ~Faulted(feed_urls[2])
    /\ NewItems(feed_urls[2]) # <<>>
    /\ \E a \in Range(Emitted) : a.url = feed_urls[2]

\* C6: add_feed of a registered url leaves the list, with its one entry for
\* the url, and every watermark as they are; add_feed of an absent url
\* appends it with watermark now minus a day and leaves the other watermarks;
\* and no other step creates an entry.
C6_RegisterIdempotent ==
    [][/\ \A u \in URLs :
            (last_call'.op = "add_feed" /\ last_call'.url = u) =>
                IF u \in Range(feed_urls)
                THEN /\ feed_urls' = feed_urls
                     /\ last_check' = last_check
                     /\ Cardinality({i \in 1..Len(feed_urls') : feed_urls'[i] = u}) = 1
                ELSE /\ feed_urls' = Append(feed_urls, u)
                     /\ DOMAIN last_check' = DOMAIN last_check \cup {u}
                     /\ last_check'[u] = now - Day
                     /\ \A v \in DOMAIN last_check : last_check'[v] = last_check[v]
       /\ \A u \in URLs :
            (u \notin DOMAIN last_check /\ u \in DOMAIN last_check') =>
                (last_call'.op = "add_feed" /\ last_call'.url = u)]_vars

\* add_feed was called for a url whose watermark a poll had advanced.
C6_Witness ==
    /\ last_call.op = "add_feed"
    /\ last_call.url \in DOMAIN last_check
    /\ last_check[last_call.url] > now - Day
    /\ Len(feed_urls) = 2
    /\ \A v \in DOMAIN last_check : last_check[v] > now - Day

----------------------------------------------------------------------------
(* The claims about the summarizers *)

\* An article's content and its feed-provided summary, '' when absent.
ContentOf(a) == IF "content" \in DOMAIN a THEN a.content ELSE <<>>
SummaryOf(a) == IF "summary" \in DOMAIN a THEN a.summary ELSE <<>>

\* The fixed message, naming the article's title.
NoContentText(a) ==
    <<"No content available to summarize for ">>
    \o (IF "title" \in DOMAIN a THEN a.title ELSE <<"Untitled Article">>)

\* C9: a summarizer that gets to choose its source text takes the content if
\* it is not empty, else the summary if it is not empty, and returns the
\* fixed message only when both are empty or absent.
C9_ContentElseSummary ==
    "text_to_summarize" \in DOMAIN summarized =>
        /\ ContentOf(article) # <<>> =>
               summarized.text_to_summarize = ContentOf(article)
        /\ (ContentOf(article) = <<>> /\ SummaryOf(article) # <<>>) =>
               summarized.text_to_summarize = SummaryOf(article)
        /\ summarized.result = NoContentText(article) <=>
               (ContentOf(article) = <<>> /\ SummaryOf(article) = <<>>)

\* C10, as claimed: for an article whose content and summary are both empty,
\* either summarizer, with or without a credential, returns the fixed message
\* naming the title and sends no completion request.
C10_EmptyArticleGetsMessage ==
    (/\ summarized.summarizer # "none"
     /\ ContentOf(article) = <<>>
     /\ SummaryOf(article) = <<>>)
    => /\ summarized.result = NoContentText(article)
       /\ summarized.requests = <<>>

\* C10, amended: for such an article the extractive summarizer, and the
\* generative summarizer that has a credential, return the fixed message
\* naming the title; the generative summarizer without a credential returns
\* None; none of them sends a completion request.
C10_EmptyArticleGetsMessageOrNone ==
    (/\ summarized.summarizer # "none"
     /\ ContentOf(article) = <<>>
     /\ SummaryOf(article) = <<>>)
    => /\ summarized.result =
             IF summarized.summarizer = "AISummarizer" /\ api_key \in {<<>>, None}
             THEN None
             ELSE NoContentText(article)
       /\ summarized.requests = <<>>

\* The generative summarizer, with a credential, was called on an article
\* with a title, an empty content and an empty summary.
C10_Witness ==
    /\ summarized.summarizer = "AISummarizer"
    /\ api_key = <<"k">>
    /\ DOMAIN article = {"title", "content", "summary"}
    /\ article.content = <<>>
    /\ article.summary = <<>>
    /\ summarized.result = NoContentText(article)

----------------------------------------------------------------------------
(* The claims about the orchestrator and the notifier *)

\* The positions between two cycles: asleep, or about to call run_once.
BetweenCycles == {"sleep", "run_once"}

\* The positions inside a cycle.
MidCycle == {"poll", "summarize", "post"}

\* C7, as claimed: the loop is stopped only by an interrupt that arrives
\* between cycles, so that no cycle is left partly executed.
C7_StoppedOnlyBetweenCycles ==
    bot_pc = "stopped" => interrupted_at \in BetweenCycles

\* C7, amended: the loop is stopped only by an external interrupt, never by a
\* fault of a cycle; the interrupt stops it wherever it arrives, between
\* cycles or inside one.
C7_StoppedOnlyByInterrupt ==
    \/ bot_pc \in BetweenCycles \cup MidCycle /\ interrupted_at = "nowhere"
    \/ bot_pc = "stopped" /\ interrupted_at \in BetweenCycles \cup MidCycle

\* The interrupt arrived while a batch of two was being posted: one
\* notification was tried, the other never is.
C7_Witness ==
    /\ bot_pc = "stopped"
    /\ interrupted_at = "post"
    /\ Len(summarized_articles) = 2
    /\ attempted = 1

\* C8: when a cycle that had a batch to post is over, a notification was
\* tried for every article of the batch, whatever happened to the ones before
\* it, and run_once has returned the number of messages posted.
C8_PostFaultDoesNotStopBatch ==
    (bot_pc = "sleep" /\ summarized_articles # <<>>)
    => /\ attempted = Len(summarized_articles)
       /\ run_once_result = <<posted>>

----------------------------------------------------------------------------
(* The claims about batch_summarize *)

\* What summarize_article of the summarizer that ran the batch returns for
\* the i-th article of the list.
SummaryOfNth(i) ==
    IF batch_summarized.summarizer = "AISummarizer"
    THEN AISummarizeArticle(api_key, batch_articles[i],
                            batch_summarized.responses[i]).result
    ELSE SimpleSummarizeArticle(batch_articles[i]).result

\* The list batch_summarize returned has one record for each article handed
\* in, in the same order: the article's own fields, and its summary under
\* ai_summary.
OneRecordPerArticle ==
    LET result == batch_summarized.result
    IN  /\ Len(result) = Len(batch_articles)
        /\ \A i \in 1..Len(batch_articles) :
              /\ DOMAIN result[i] = DOMAIN batch_articles[i] \cup {"ai_summary"}
              /\ \A k \in DOMAIN batch_articles[i] :
                    result[i][k] = batch_articles[i][k]
              /\ result[i].ai_summary = SummaryOfNth(i)

\* C11: batch_summarize of either summarizer returns a list as long as the
\* list it was given, whose i-th record is the i-th article with its summary
\* added as ai_summary, also when the summary of an article is None or an
\* error message; the articles it was given are left as they were.
C11_BatchCopiesEveryArticle ==
    [][/\ batch_articles' = batch_articles
       /\ batch_summarized'.summarizer # "none" => OneRecordPerArticle']_vars

\* A batch of two with a credential: the completion request for the first
\* article raised, the second was answered; both articles are in the list.
C11_Witness ==
    /\ batch_summarized.summarizer = "AISummarizer"
    /\ Len(batch_articles) = 2
    /\ Len(batch_summarized.result) = 2
    /\ batch_summarized.result[1].ai_summary =
           <<"Error summarizing article: ", "timeout">>
    /\ batch_summarized.result[2].ai_summary = <<"A", ".">>

----------------------------------------------------------------------------
(* The claims about the extractive summary *)

\* Sentence j is ranked before sentence i: it scores higher, or the same and
\* comes earlier in the text.
RankedBefore(scores, j, i) ==
    \/ Above(scores[j], scores[i])
    \/ Level(scores[j], scores[i]) /\ j < i

\* The positions of the k sentences ranked first.
Best(scores, k) ==
    {i \in DOMAIN scores :
        Cardinality({j \in DOMAIN scores : RankedBefore(scores, j, i)}) < k}

\* The sentences at the positions in indices, from position i on, in the
\* order of the text, with one space between two of them.
RECURSIVE InTextOrder(_, _, _)
InTextOrder(sentences, indices, i) ==
    IF i > Len(sentences) THEN <<>>
    ELSE IF i \notin indices THEN InTextOrder(sentences, indices, i + 1)
    ELSE IF \E j \in indices : j > i
         THEN sentences[i] \o <<" ">> \o InTextOrder(sentences, indices, i + 1)
         ELSE sentences[i]

\* k of the claim: 2 up to fourteen sentences, 3 from fifteen on.
HowMany(n) == IF n >= 15 THEN 3 ELSE 2

\* C12: for a text of n > 2 sentences the extractive summary is made of
\* k = min(3, max(2, n // 5)) sentences of the text, 2 for n <= 14 and 3 from
\* 15 on: the k highest-scoring ones, the earlier sentence first among equal
\* scores, joined by single spaces in the order of the text; a text of at
\* most two sentences is returned unchanged.
C12_TopSentencesInTextOrder ==
    (summarized.summarizer = "SimpleSummarizer"
        /\ Truthy(summarized.text_to_summarize))
    => LET sentences == ExtractSentences(summarized.text_to_summarize)
           n         == Len(sentences)
           k         == HowMany(n)
           best      == Best(ScoreSentences(sentences), k)
       IN  IF n <= 2 THEN summarized.result = summarized.text_to_summarize
           ELSE /\ k = Min(3, Max(2, n \div 5))
                /\ Cardinality(best) = k
                /\ summarized.result = InTextOrder(sentences, best, 1)

\* A summary of three sentences out of fifteen, in which a sentence stands
\* before one that scores higher.
C12_Witness ==
    /\ summarized.summarizer = "SimpleSummarizer"
    /\ LET sentences == ExtractSentences(summarized.text_to_summarize)
           scores    == ScoreSentences(sentences)
           best      == Best(scores, 3)
       IN  /\ Len(sentences) = 15
           /\ Cardinality(best) = 3
           /\ summarized.result = InTextOrder(sentences, best, 1)
           /\ \E i, j \in best : i < j /\ Above(scores[j], scores[i])

----------------------------------------------------------------------------
(* The claims about the continuous mode *)

\* The positions of a loop that has not ended.
Running == BetweenCycles \cup MidCycle

\* This step ends a cycle by a fault: the cycle is left before a notification
\* was tried for every article of its batch, and not by an interrupt.
CycleEndsInFault ==
    /\ bot_pc = "post"
    /\ post_i <= Len(summarized_articles)
    /\ bot_pc' \notin {"post", "stopped"}

\* C13: a fault inside a cycle does not end the loop: the cycle that ends in
\* a fault returns 0 and the loop goes to sleep, a fault of one feed or of one
\* completion request leaves the cycle running, from the sleep the loop only
\* goes on, check_interval later, to the next cycle, and the loop ends only
\* by the interrupt.
C13_FaultDoesNotEndLoop ==
    [][/\ CycleEndsInFault => bot_pc' = "sleep" /\ run_once_result' = <<0>>
       /\ (bot_pc = "sleep" /\ bot_pc' \in Running)
            => bot_pc' \in {"sleep", "run_once"}
       /\ (bot_pc = "sleep" /\ bot_pc' = "run_once")
            => now' = now + CheckInterval
       /\ (bot_pc \in Running /\ bot_pc' \notin Running)
            => bot_pc' = "stopped" /\ interrupted_at' = bot_pc
       /\ bot_pc \notin Running => bot_pc' = bot_pc]_vars

\* A cycle posted one message and then ended in a fault; the loop has slept
\* and is about to start the next cycle.
C13_Witness ==
    /\ bot_pc = "run_once"
    /\ posted = 1
    /\ attempted = 2
    /\ run_once_result = <<0>>
    /\ now > 0

----------------------------------------------------------------------------
(* The claims about one cycle *)

\* C14: run_once polls, then summarizes, then posts: with nothing polled it
\* returns 0 and neither summarizes nor posts; otherwise all polled articles
\* are summarized before the first notification is tried, at most one
\* notification is tried for each, and the value returned is the number of
\* messages posted, between 0 and the number of polled articles.
C14_CycleInOrder ==
    /\ bot_pc \in {"poll", "summarize"}
         => summarized_articles = <<>> /\ attempted = 0 /\ posted = 0
    /\ (bot_pc = "sleep" /\ all_new_articles = <<>>)
         => /\ run_once_result = <<0>>
            /\ summarized_articles = <<>>
            /\ attempted = 0
    /\ bot_pc = "post"
         => /\ Len(summarized_articles) = Len(all_new_articles)
            /\ \A i \in 1..Len(all_new_articles) :
                  "ai_summary" \in DOMAIN summarized_articles[i]
            /\ attempted = post_i - 1
    /\ attempted <= Len(all_new_articles)
    /\ bot_pc = "sleep"
         => /\ run_once_result = <<posted>>
            /\ posted \in 0..Len(all_new_articles)

====
